---- MODULE Spec2Model ----
(***************************************************************************)
(* WsClientApi::connect of src-tauri/src/client/client_api.rs: the tunnel  *)
(* supervisor.  connect builds the shared transport client, walks the      *)
(* remote_to_local list and then the local_to_remote list, spawns one      *)
(* detached task per runnable endpoint, and in the Stdio arm blocks until  *)
(* the stdio bridge closes or ctrl-c arrives, sleeps one second and exits  *)
(* the process.                                                            *)
(***************************************************************************)
EXTENDS Naturals, Sequences, FiniteSets

VARIABLES
    platform,         \* the build target: cfg(unix) / cfg(target_os = "linux")
    args,             \* the transport parameters of the Client given to connect
    remote_to_local,  \* args.remote_to_local: the local_protocol of each entry
    remote_timeout,   \* the timeout carried by each ReverseUdp entry's protocol
    local_to_remote,  \* args.local_to_remote: the local_protocol of each entry
    pc,               \* where connect is
    ri,               \* index of the remote_to_local entry being dispatched
    li,               \* index of the local_to_remote entry being dispatched
    error,            \* why connect stopped ("none" while it has not)
    client_config,    \* the WsClientConfig built (<<>> before it is)
    listeners,        \* every listener construction attempted, in order
    tasks,            \* every tokio::spawn made, in order
    closed,           \* handle.closed() has resolved
    interrupt,        \* tokio::signal::ctrl_c() has resolved
    slept,            \* seconds of the grace sleep that have elapsed
    exit_status       \* the codes given to std::process::exit (<<>> before it)

vars == <<platform, args, remote_to_local, remote_timeout, local_to_remote,
          pc, ri, li, error, client_config, listeners, tasks, closed,
          interrupt, slept, exit_status>>

-----------------------------------------------------------------------------
(* Bounds and program constants *)

\* at most this many endpoints are declared, both lists together
MaxEndpoints == 2

\* at most this many entries in args.http_headers
MaxHeaders == 2

\* Duration::from_secs(1) of the grace sleep
GraceSecs == 1

\* Duration::from_secs(30), the websocket ping frequency when none is given
DefaultPingSecs == 30

-----------------------------------------------------------------------------
(* The closed set of LocalProtocol variants and the build targets *)

ForwardProtocols ==
    {"Tcp", "Udp", "Socks5", "HttpProxy", "Stdio", "Unix", "TProxyTcp", "TProxyUdp"}

ReverseProtocols ==
    {"ReverseTcp", "ReverseUdp", "ReverseSocks5", "ReverseHttpProxy", "ReverseUnix"}

LocalProtocol == ForwardProtocols \cup ReverseProtocols

\* "linux": cfg(unix) and cfg(target_os = "linux"); "unix": cfg(unix) only;
\* "other": neither
Platforms == {"linux", "unix", "other"}

cfg_unix == platform \in {"linux", "unix"}

cfg_linux == platform = "linux"

SeqsUpTo(S, n) == UNION {[1..k -> S] : k \in 0..n}

-----------------------------------------------------------------------------
(* Construction of the transport client: lines 32-143 *)

\* the steps of the prologue that abort by panic (expect / unwrap / panic!)
BuildPanics ==
    {"tls_certificate", "scheme", "tls_connector", "remote_addr",
     "http_headers_file", "dns_resolver"}

\* the steps of the prologue that return Err through `?`
BuildErrs == {"host_header", "http_proxy", "ws_client"}

BuildOutcomes == {"ok"} \cup BuildPanics \cup BuildErrs

\* Option<T>: None is <<>>, Some(x) is <<x>>.  A Duration is <<secs, millis>>.
from_secs(n) == <<n, 0>>

as_secs(d) == d[1]

\* the schemes TransportScheme::from_str accepts, and one it does not
ValidSchemes == {"ws", "wss", "http", "https"}

Schemes == ValidSchemes \cup {"ftp"}

\* header names as HeaderName holds them (lower case); HOST is "host"
HOST == "host"

HeaderNames == {HOST, "x-id"}

\* header values, written as the host and the optional port they name
HeaderValues == {<<"a.example">>, <<"b.example", 8443>>}

Ports == {<<>>, <<80>>, <<443>>, <<8080>>}

PingFrequencies == {<<>>, <<<<0, 0>>>>, <<<<0, 500>>>>, <<<<1, 0>>>>, <<<<45, 0>>>>}

\* the Client fields that decide the transport configuration
ArgsSet ==
    [scheme : Schemes,
     host : {"example.com"},
     port : Ports,
     tls_sni_disable : BOOLEAN,
     http_headers : SeqsUpTo(HeaderNames \X HeaderValues, MaxHeaders),
     websocket_ping_frequency_sec : PingFrequencies]

DefaultArgs ==
    [scheme |-> "ws", host |-> "example.com", port |-> <<>>,
     tls_sni_disable |-> FALSE, http_headers |-> <<>>,
     websocket_ping_frequency_sec |-> <<>>]

\* Url::port_or_known_default
port_or_known_default(a) ==
    IF a.port # <<>> THEN a.port
    ELSE CASE a.scheme \in {"ws", "http"} -> <<80>>
           [] a.scheme \in {"wss", "https"} -> <<443>>
           [] a.scheme = "ftp" -> <<21>>
           [] OTHER -> <<>>

\* a variant of tls that builds a TLS configuration for every scheme
tlsAlways(a) ==
    <<[sni_enabled |-> ~a.tls_sni_disable, tls_sni_disabled |-> a.tls_sni_disable]>>

\* let tls = match transport_scheme { ... }: sni_enabled is the flag given to
\* tls::tls_connector
tls(a) ==
    IF a.scheme \in {"ws", "http"} THEN <<>>
    ELSE <<[sni_enabled |-> ~a.tls_sni_disable, tls_sni_disabled |-> a.tls_sni_disable]>>

IsHost(h) == h[1] = HOST

NotHost(h) == h[1] # HOST

\* a variant of http_headers that passes the list on unfiltered
http_headersUnfiltered(a) == a.http_headers

\* args.http_headers.into_iter().filter(|(k, _)| k != HOST).collect()
http_headers(a) == SelectSeq(a.http_headers, NotHost)

\* let host_header = ...: the first Host entry, else the URL's host, with the
\* port unless it is None, 80 or 443
host_header(a) ==
    LET explicit == SelectSeq(a.http_headers, IsHost)
        port == port_or_known_default(a)
    IN  IF explicit # <<>> THEN explicit[1][2]
        ELSE IF port \in {<<>>, <<80>>, <<443>>} THEN <<a.host>>
        ELSE <<a.host, port[1]>>

\* a variant of websocket_ping_frequency without the final filter
websocket_ping_frequencyUnfiltered(a) ==
    IF a.websocket_ping_frequency_sec # <<>> THEN a.websocket_ping_frequency_sec
    ELSE <<from_secs(DefaultPingSecs)>>

\* args.websocket_ping_frequency_sec.or(Some(Duration::from_secs(30)))
\*     .filter(|d| d.as_secs() > 0)
websocket_ping_frequency(a) ==
    LET d == IF a.websocket_ping_frequency_sec # <<>>
               THEN a.websocket_ping_frequency_sec
               ELSE <<from_secs(DefaultPingSecs)>>
    IN  IF as_secs(d[1]) > 0 THEN d ELSE <<>>

\* the WsClientConfig literal of lines 104-136
WsClientConfig(a) ==
    [tls |-> tls(a),
     http_headers |-> http_headers(a),
     http_header_host |-> host_header(a),
     websocket_ping_frequency |-> websocket_ping_frequency(a)]

\* the ways the prologue can end for given args: an unknown scheme stops it
\* at line 60 at the latest, tls_connector is only called for a TLS scheme,
\* HeaderValue::from_str only without an explicit Host entry
BuildOutcomesFor(a) ==
    IF a.scheme \notin ValidSchemes THEN {"tls_certificate", "scheme"}
    ELSE {"ok", "tls_certificate", "http_headers_file", "http_proxy",
          "remote_addr", "dns_resolver", "ws_client"}
         \cup (IF tls(a) # <<>> THEN {"tls_connector"} ELSE {})
         \cup (IF SelectSeq(a.http_headers, IsHost) = <<>> THEN {"host_header"} ELSE {})

-----------------------------------------------------------------------------
(* The two match statements *)

Spawn(factory, runner, tag) ==
    [act |-> "spawn", factory |-> factory, runner |-> runner, tag |-> tag]

Skip == [act |-> "skip", factory |-> "none", runner |-> "none", tag |-> "none"]

Panic(why) == [act |-> "panic", factory |-> "none", runner |-> "none", tag |-> why]

\* a variant of RemoteDispatch that forgets the ReverseUdp arm
RemoteDispatchNoUdp(p) ==
    CASE p = "ReverseTcp" -> Spawn("TcpTunnelConnector", "run_reverse_tunnel", "ReverseTcp")
      [] p = "ReverseSocks5" -> Spawn("Socks5TunnelConnector", "run_reverse_tunnel", "ReverseSocks5")
      [] p = "ReverseHttpProxy" -> Spawn("TcpTunnelConnector", "run_reverse_tunnel", "ReverseHttpProxy")
      [] p = "ReverseUnix" -> Spawn("TcpTunnelConnector", "run_reverse_tunnel", "ReverseUnix")
      [] p = "Unix" -> Panic("invalid_reverse_protocol")
      [] OTHER -> Skip

\* a variant of RemoteDispatch that gives the http proxy a SOCKS5 connector
RemoteDispatchProxySocks(p) ==
    CASE p = "ReverseTcp" -> Spawn("TcpTunnelConnector", "run_reverse_tunnel", "ReverseTcp")
      [] p = "ReverseUdp" -> Spawn("UdpTunnelConnector", "run_reverse_tunnel", "ReverseUdp")
      [] p = "ReverseSocks5" -> Spawn("Socks5TunnelConnector", "run_reverse_tunnel", "ReverseSocks5")
      [] p = "ReverseHttpProxy" -> Spawn("Socks5TunnelConnector", "run_reverse_tunnel", "ReverseHttpProxy")
      [] p = "ReverseUnix" -> Spawn("TcpTunnelConnector", "run_reverse_tunnel", "ReverseUnix")
      [] p = "Unix" -> Panic("invalid_reverse_protocol")
      [] OTHER -> Skip

\* a variant of RemoteDispatch that skips the forward Unix variant
RemoteDispatchUnixSkipped(p) ==
    CASE p = "ReverseTcp" -> Spawn("TcpTunnelConnector", "run_reverse_tunnel", "ReverseTcp")
      [] p = "ReverseUdp" -> Spawn("UdpTunnelConnector", "run_reverse_tunnel", "ReverseUdp")
      [] p = "ReverseSocks5" -> Spawn("Socks5TunnelConnector", "run_reverse_tunnel", "ReverseSocks5")
      [] p = "ReverseHttpProxy" -> Spawn("TcpTunnelConnector", "run_reverse_tunnel", "ReverseHttpProxy")
      [] p = "ReverseUnix" -> Spawn("TcpTunnelConnector", "run_reverse_tunnel", "ReverseUnix")
      [] OTHER -> Skip

\* a variant of RemoteDispatch that treats a Stdio entry as fatal
RemoteDispatchStdioPanics(p) ==
    CASE p = "ReverseTcp" -> Spawn("TcpTunnelConnector", "run_reverse_tunnel", "ReverseTcp")
      [] p = "ReverseUdp" -> Spawn("UdpTunnelConnector", "run_reverse_tunnel", "ReverseUdp")
      [] p = "ReverseSocks5" -> Spawn("Socks5TunnelConnector", "run_reverse_tunnel", "ReverseSocks5")
      [] p = "ReverseHttpProxy" -> Spawn("TcpTunnelConnector", "run_reverse_tunnel", "ReverseHttpProxy")
      [] p = "ReverseUnix" -> Spawn("TcpTunnelConnector", "run_reverse_tunnel", "ReverseUnix")
      [] p \in {"TProxyTcp", "TProxyUdp", "Tcp", "Udp", "Socks5", "HttpProxy"} -> Skip
      [] p \in {"Unix", "Stdio"} -> Panic("invalid_reverse_protocol")

\* a variant of RemoteDispatch that builds the SOCKS5 connector in the loop
\* and aborts when that fails
RemoteDispatchConnectorFails(p) ==
    CASE p = "ReverseTcp" -> Spawn("TcpTunnelConnector", "run_reverse_tunnel", "ReverseTcp")
      [] p = "ReverseUdp" -> Spawn("UdpTunnelConnector", "run_reverse_tunnel", "ReverseUdp")
      [] p = "ReverseSocks5" -> Panic("connector")
      [] p = "ReverseHttpProxy" -> Spawn("TcpTunnelConnector", "run_reverse_tunnel", "ReverseHttpProxy")
      [] p = "ReverseUnix" -> Spawn("TcpTunnelConnector", "run_reverse_tunnel", "ReverseUnix")
      [] p \in {"Stdio", "TProxyTcp", "TProxyUdp", "Tcp", "Udp", "Socks5", "HttpProxy"} -> Skip
      [] p = "Unix" -> Panic("invalid_reverse_protocol")

\* match &tunnel.local_protocol of the remote_to_local loop
RemoteDispatch(p) ==
    CASE p = "ReverseTcp" -> Spawn("TcpTunnelConnector", "run_reverse_tunnel", "ReverseTcp")
      [] p = "ReverseUdp" -> Spawn("UdpTunnelConnector", "run_reverse_tunnel", "ReverseUdp")
      [] p = "ReverseSocks5" -> Spawn("Socks5TunnelConnector", "run_reverse_tunnel", "ReverseSocks5")
      [] p = "ReverseHttpProxy" -> Spawn("TcpTunnelConnector", "run_reverse_tunnel", "ReverseHttpProxy")
      [] p = "ReverseUnix" -> Spawn("TcpTunnelConnector", "run_reverse_tunnel", "ReverseUnix")
      [] p \in {"Stdio", "TProxyTcp", "TProxyUdp", "Tcp", "Udp", "Socks5", "HttpProxy"} -> Skip
      [] p = "Unix" -> Panic("invalid_reverse_protocol")

\* a variant of LocalDispatch that runs a ReverseTcp entry as a Tcp one
LocalDispatchReverseTcpRuns(p) ==
    CASE p = "Tcp" -> Spawn("TcpTunnelListener", "run_tunnel", "Tcp")
      [] p = "TProxyTcp" /\ cfg_linux -> Spawn("TproxyTcpTunnelListener", "run_tunnel", "TProxyTcp")
      [] p = "Unix" /\ cfg_unix -> Spawn("UnixTunnelListener", "run_tunnel", "Unix")
      [] p = "Unix" /\ ~cfg_unix -> Panic("unix_not_available")
      [] p = "TProxyUdp" /\ cfg_linux -> Spawn("new_tproxy_udp", "run_tunnel", "TProxyUdp")
      [] p \in {"TProxyTcp", "TProxyUdp"} /\ ~cfg_linux -> Panic("tproxy_not_available")
      [] p = "Udp" -> Spawn("UdpTunnelListener", "run_tunnel", "Udp")
      [] p = "Socks5" -> Spawn("Socks5TunnelListener", "run_tunnel", "Socks5")
      [] p = "HttpProxy" -> Spawn("HttpProxyTunnelListener", "run_tunnel", "HttpProxy")
      [] p = "Stdio" -> Spawn("new_stdio_listener", "run_tunnel", "Stdio")
      [] p = "ReverseTcp" -> Spawn("TcpTunnelListener", "run_tunnel", "ReverseTcp")
      [] p \in ReverseProtocols \ {"ReverseTcp"} -> Skip

\* match &tunnel.local_protocol of the local_to_remote loop, under the cfg
\* attributes of the build
LocalDispatch(p) ==
    CASE p = "Tcp" -> Spawn("TcpTunnelListener", "run_tunnel", "Tcp")
      [] p = "TProxyTcp" /\ cfg_linux -> Spawn("TproxyTcpTunnelListener", "run_tunnel", "TProxyTcp")
      [] p = "Unix" /\ cfg_unix -> Spawn("UnixTunnelListener", "run_tunnel", "Unix")
      [] p = "Unix" /\ ~cfg_unix -> Panic("unix_not_available")
      [] p = "TProxyUdp" /\ cfg_linux -> Spawn("new_tproxy_udp", "run_tunnel", "TProxyUdp")
      [] p \in {"TProxyTcp", "TProxyUdp"} /\ ~cfg_linux -> Panic("tproxy_not_available")
      [] p = "Udp" -> Spawn("UdpTunnelListener", "run_tunnel", "Udp")
      [] p = "Socks5" -> Spawn("Socks5TunnelListener", "run_tunnel", "Socks5")
      [] p = "HttpProxy" -> Spawn("HttpProxyTunnelListener", "run_tunnel", "HttpProxy")
      [] p = "Stdio" -> Spawn("new_stdio_listener", "run_tunnel", "Stdio")
      [] p \in ReverseProtocols -> Skip

\* a variant of Try that swallows the error
TryIgnoringErr(ok) == "continue"

\* the `?` after a listener constructor's .await: an Err returns from connect
Try(ok) == IF ok THEN "continue" ELSE "return_err"

\* a variant of ConnectorTarget in which every targeted connector is built
\* to the descriptor's remote target
ConnectorTargetRemote(tag) ==
    CASE tag \in {"ReverseTcp", "ReverseUdp", "ReverseHttpProxy", "ReverseUnix"} -> "tunnel.remote"
      [] OTHER -> "none"

\* the (host, port) the connector of a reverse task is built with: the
\* descriptor's remote target in the ReverseTcp and ReverseUnix arms, but
\* remote.host / remote.port, which come from to_host_port(tunnel.local), in
\* the ReverseUdp and ReverseHttpProxy arms; Socks5TunnelConnector::new takes
\* no target
ConnectorTarget(tag) ==
    CASE tag \in {"ReverseTcp", "ReverseUnix"} -> "tunnel.remote"
      [] tag \in {"ReverseUdp", "ReverseHttpProxy"} -> "tunnel.local"
      [] OTHER -> "none"

\* let (host, port) = to_host_port(tunnel.local): the RemoteAddr given to
\* run_reverse_tunnel
AdvertisedAddr(tag) ==
    IF tag \in ReverseProtocols THEN "tunnel.local" ELSE "none"

\* a variant of CarriedTimeout that turns "no timeout" into ten seconds
CarriedTimeoutDefaulted(t) == IF t = <<>> THEN <<from_secs(10)>> ELSE t

\* let timeout = *timeout; ... LocalProtocol::ReverseUdp { timeout }
CarriedTimeout(t) == t

Task(list, idx, d) ==
    [list |-> list, idx |-> idx, factory |-> d.factory, runner |-> d.runner,
     tag |-> d.tag, status |-> "running",
     connect_to |-> ConnectorTarget(d.tag),
     advertised |-> AdvertisedAddr(d.tag),
     timeout |-> IF list = "R" THEN CarriedTimeout(remote_timeout[idx]) ELSE <<>>]

\* a variant of AfterRemote that leaves the first loop after one entry
AfterRemoteEarly(i) == "local_loop"

\* where connect goes once remote_to_local entry i has been handled
AfterRemote(i) == IF i < Len(remote_to_local) THEN "remote_loop" ELSE "local_loop"

\* a variant of AfterBuild that carries on after an Err of the prologue
AfterBuildIgnoringErr(outcome) ==
    CASE outcome \in BuildPanics -> "panicked"
      [] OTHER -> AfterRemote(0)

\* where connect goes after the prologue: a panic unwinds, `?` returns the
\* Err, otherwise the first loop starts
AfterBuild(outcome) ==
    CASE outcome \in BuildPanics -> "panicked"
      [] outcome \in BuildErrs -> "returned_err"
      [] OTHER -> AfterRemote(0)

\* the timeouts a ReverseUdp entry may carry: None or Some(10 s)
Timeouts == {<<>>, <<from_secs(10)>>}

\* the timeout payloads that go with a remote_to_local list
TimeoutsFor(r) ==
    {t \in [1..Len(r) -> Timeouts] :
        \A i \in 1..Len(r) : r[i] # "ReverseUdp" => t[i] = <<>>}

-----------------------------------------------------------------------------
Init ==
    /\ platform \in Platforms
    /\ args = DefaultArgs
    /\ \E r \in SeqsUpTo(LocalProtocol, MaxEndpoints) :
         \E l \in SeqsUpTo(LocalProtocol, MaxEndpoints - Len(r)) :
            /\ remote_to_local = r
            /\ remote_timeout \in TimeoutsFor(r)
            /\ local_to_remote = l
    /\ pc = "build_client"
    /\ ri = 1
    /\ li = 1
    /\ error = "none"
    /\ client_config = <<>>
    /\ listeners = <<>>
    /\ tasks = <<>>
    /\ closed = FALSE
    /\ interrupt = FALSE
    /\ slept = 0
    /\ exit_status = <<>>

inputs == <<platform, args, remote_to_local, remote_timeout, local_to_remote>>

stdio == <<closed, interrupt, slept, exit_status>>

\* lines 32-144: TLS material, scheme, host header, headers file, http proxy,
\* dns resolver, WsClient::new; the first step that fails ends connect
BuildClient ==
    /\ pc = "build_client"
    /\ \E outcome \in BuildOutcomesFor(args) :
         /\ pc' = AfterBuild(outcome)
         /\ error' = IF outcome = "ok" THEN "none" ELSE outcome
         /\ client_config' = IF outcome = "ok" THEN <<WsClientConfig(args)>> ELSE <<>>
    /\ UNCHANGED <<inputs, ri, li, listeners, tasks, stdio>>

\* one iteration of `for tunnel in args.remote_to_local`
RemoteNext ==
    /\ pc = "remote_loop"
    /\ ri <= Len(remote_to_local)
    /\ LET d == RemoteDispatch(remote_to_local[ri]) IN
         CASE d.act = "spawn" ->
                /\ tasks' = Append(tasks, Task("R", ri, d))
                /\ pc' = AfterRemote(ri)
                /\ ri' = ri + 1
                /\ error' = error
           [] d.act = "skip" ->
                /\ tasks' = tasks
                /\ pc' = AfterRemote(ri)
                /\ ri' = ri + 1
                /\ error' = error
           [] d.act = "panic" ->
                /\ tasks' = tasks
                /\ pc' = "panicked"
                /\ ri' = ri
                /\ error' = d.tag
    /\ UNCHANGED <<inputs, client_config, li, listeners, stdio>>

\* one iteration of `for tunnel in args.local_to_remote`: the listener is
\* constructed (it may fail), the task is spawned, and the Stdio arm goes on
\* to its select!
LocalNext ==
    /\ pc = "local_loop"
    /\ li <= Len(local_to_remote)
    /\ LET p == local_to_remote[li]
           d == LocalDispatch(p) IN
         CASE d.act = "spawn" ->
                \E ok \in BOOLEAN :
                   /\ listeners' = Append(listeners, [idx |-> li, factory |-> d.factory, ok |-> ok])
                   /\ IF Try(ok) = "continue"
                        THEN /\ tasks' = Append(tasks, Task("L", li, d))
                             /\ pc' = IF p = "Stdio" THEN "stdio_select" ELSE "local_loop"
                             /\ li' = IF p = "Stdio" THEN li ELSE li + 1
                             /\ error' = error
                        ELSE /\ tasks' = tasks
                             /\ pc' = "returned_err"
                             /\ li' = li
                             /\ error' = "listener"
           [] d.act = "skip" ->
                /\ listeners' = listeners
                /\ tasks' = tasks
                /\ pc' = pc
                /\ li' = li + 1
                /\ error' = error
           [] d.act = "panic" ->
                /\ listeners' = listeners
                /\ tasks' = tasks
                /\ pc' = "panicked"
                /\ li' = li
                /\ error' = d.tag
    /\ UNCHANGED <<inputs, client_config, ri, stdio>>

\* a variant of ReturnOk that joins the spawned tasks first
ReturnOkAfterJoin ==
    /\ pc = "local_loop"
    /\ li > Len(local_to_remote)
    /\ \A t \in DOMAIN tasks : tasks[t].status # "running"
    /\ pc' = "returned_ok"
    /\ UNCHANGED <<inputs, client_config, ri, li, error, listeners, tasks, stdio>>

\* Ok(()) after the second loop
ReturnOk ==
    /\ pc = "local_loop"
    /\ li > Len(local_to_remote)
    /\ pc' = "returned_ok"
    /\ UNCHANGED <<inputs, client_config, ri, li, error, listeners, tasks, stdio>>

-----------------------------------------------------------------------------
(* The Stdio arm after its spawn: select!, sleep, exit *)

\* a variant of SelectReady that only listens to the stdio bridge
SelectReadyClosedOnly == closed

\* select! { handle.closed(), tokio::signal::ctrl_c() }: either branch is ready
SelectReady == closed \/ interrupt

\* a variant of GraceElapsed that does not sleep
GraceElapsedAtOnce == TRUE

\* tokio::time::sleep(Duration::from_secs(1)) has completed
GraceElapsed == slept >= GraceSecs

\* the stdio bridge reports closure
StdioClosed ==
    /\ pc \in {"stdio_select", "stdio_sleep"}
    /\ ~closed
    /\ closed' = TRUE
    /\ UNCHANGED <<inputs, client_config, pc, ri, li, error, listeners, tasks, interrupt, slept, exit_status>>

\* an interrupt signal is delivered while ctrl_c() is registered
Interrupt ==
    /\ pc \in {"stdio_select", "stdio_sleep"}
    /\ ~interrupt
    /\ interrupt' = TRUE
    /\ UNCHANGED <<inputs, client_config, pc, ri, li, error, listeners, tasks, closed, slept, exit_status>>

\* a variant of SelectWake in which connect returns once select! completes
SelectWakeReturns ==
    /\ pc = "stdio_select"
    /\ SelectReady
    /\ pc' = "returned_ok"
    /\ UNCHANGED <<inputs, client_config, ri, li, error, listeners, tasks, stdio>>

\* select! completes on whichever branch is ready
SelectWake ==
    /\ pc = "stdio_select"
    /\ SelectReady
    /\ pc' = "stdio_sleep"
    /\ UNCHANGED <<inputs, client_config, ri, li, error, listeners, tasks, stdio>>

\* one second of the sleep passes
SleepTick ==
    /\ pc = "stdio_sleep"
    /\ slept < GraceSecs
    /\ slept' = slept + 1
    /\ UNCHANGED <<inputs, client_config, pc, ri, li, error, listeners, tasks, closed, interrupt, exit_status>>

\* std::process::exit(0)
ProcessExit ==
    /\ pc = "stdio_sleep"
    /\ GraceElapsed
    /\ pc' = "exited"
    /\ exit_status' = <<0>>
    /\ UNCHANGED <<inputs, client_config, ri, li, error, listeners, tasks, closed, interrupt, slept>>

-----------------------------------------------------------------------------
(* The spawned tasks: run_tunnel / run_reverse_tunnel return, the task ends *)

\* a variant of TaskFail in which the failure takes the process down
TaskFailAborts(t) ==
    /\ pc # "exited"
    /\ tasks[t].status = "running"
    /\ tasks' = [tasks EXCEPT ![t].status = "failed"]
    /\ pc' = "exited"
    /\ exit_status' = <<1>>
    /\ UNCHANGED <<inputs, client_config, ri, li, error, listeners, closed, interrupt, slept>>

\* the runner returned Err: error!("{:?}", err) and the task ends
TaskFail(t) ==
    /\ pc # "exited"
    /\ tasks[t].status = "running"
    /\ tasks' = [tasks EXCEPT ![t].status = "failed"]
    /\ UNCHANGED <<inputs, client_config, pc, ri, li, error, listeners, stdio>>

\* a variant of TaskDone in which the tasks live only as long as connect
\* has not returned an Err
TaskDoneUntilErr(t) ==
    /\ pc \notin {"exited", "returned_err"}
    /\ tasks[t].status = "running"
    /\ tasks' = [tasks EXCEPT ![t].status = "done"]
    /\ UNCHANGED <<inputs, client_config, pc, ri, li, error, listeners, stdio>>

\* the runner returned Ok: the task ends
TaskDone(t) ==
    /\ pc # "exited"
    /\ tasks[t].status = "running"
    /\ tasks' = [tasks EXCEPT ![t].status = "done"]
    /\ UNCHANGED <<inputs, client_config, pc, ri, li, error, listeners, stdio>>

-----------------------------------------------------------------------------
ConnectStep ==
    \/ BuildClient
    \/ RemoteNext
    \/ LocalNext
    \/ ReturnOk
    \/ SelectWake
    \/ SleepTick
    \/ ProcessExit

Next ==
    \/ BuildClient
    \/ RemoteNext
    \/ LocalNext
    \/ ReturnOk
    \/ StdioClosed
    \/ Interrupt
    \/ SelectWake
    \/ SleepTick
    \/ ProcessExit
    \/ \E t \in DOMAIN tasks : TaskFail(t)
    \/ \E t \in DOMAIN tasks : TaskDone(t)

Spec == Init /\ [][Next]_vars

\* connect with no endpoint declared, over all transport parameters: only the
\* prologue and the return can act
InitConfig ==
    /\ platform = "linux"
    /\ args \in ArgsSet
    /\ remote_to_local = <<>>
    /\ remote_timeout = <<>>
    /\ local_to_remote = <<>>
    /\ pc = "build_client"
    /\ ri = 1
    /\ li = 1
    /\ error = "none"
    /\ client_config = <<>>
    /\ listeners = <<>>
    /\ tasks = <<>>
    /\ closed = FALSE
    /\ interrupt = FALSE
    /\ slept = 0
    /\ exit_status = <<>>

NextConfig ==
    \/ BuildClient
    \/ ReturnOk

ConfigSpec == InitConfig /\ [][NextConfig]_vars

\* connect is polled to completion by the runtime and timers fire; the tasks
\* and the outside world (stdio closure, signals) owe nothing
FairSpec == Spec /\ WF_vars(ConnectStep)

-----------------------------------------------------------------------------
(* Vocabulary of the properties *)

\* the number of tasks spawned for entry i of a list ("R" or "L")
SpawnCount(list, i) ==
    Cardinality({t \in DOMAIN tasks : tasks[t].list = list /\ tasks[t].idx = i})

\* the direction/protocol combinations that denote a runnable tunnel
ValidRemote(p) == p \in ReverseProtocols

ValidLocal(p) ==
    \/ p \in {"Tcp", "Udp", "Socks5", "HttpProxy", "Stdio"}
    \/ p = "Unix" /\ platform \in {"linux", "unix"}
    \/ p \in {"TProxyTcp", "TProxyUdp"} /\ platform = "linux"

NoStdioDeclared ==
    /\ \A i \in DOMAIN remote_to_local : remote_to_local[i] # "Stdio"
    /\ \A j \in DOMAIN local_to_remote : local_to_remote[j] # "Stdio"

\* the most recent listener construction failed
LastListenerFailed ==
    /\ Len(listeners) > 0
    /\ ~listeners[Len(listeners)].ok
    /\ listeners[Len(listeners)].idx = li

-----------------------------------------------------------------------------
\* C1: when the listener of one local_to_remote entry cannot be constructed,
\* every other runnable endpoint of either list, before or after it, has its
\* task spawned.
C1_OtherEndpointsStillStart ==
    (pc = "returned_err" /\ error = "listener") =>
        /\ \A i \in DOMAIN remote_to_local :
              ValidRemote(remote_to_local[i]) => SpawnCount("R", i) >= 1
        /\ \A j \in DOMAIN local_to_remote \ {li} :
              ValidLocal(local_to_remote[j]) => SpawnCount("L", j) >= 1

\* C2: no endpoint ever has two tasks, and when connect returns Ok with no
\* Stdio entry declared and no listener failure, every endpoint whose
\* direction/protocol combination is valid has exactly one task.
C2_OneTaskPerEndpoint ==
    /\ \A i \in DOMAIN remote_to_local : SpawnCount("R", i) <= 1
    /\ \A j \in DOMAIN local_to_remote : SpawnCount("L", j) <= 1
    /\ (/\ pc = "returned_ok"
        /\ NoStdioDeclared
        /\ \A k \in DOMAIN listeners : listeners[k].ok) =>
            /\ \A i \in DOMAIN remote_to_local :
                  ValidRemote(remote_to_local[i]) => SpawnCount("R", i) = 1
            /\ \A j \in DOMAIN local_to_remote :
                  ValidLocal(local_to_remote[j]) => SpawnCount("L", j) = 1

C2_Witness ==
    /\ pc = "returned_ok"
    /\ NoStdioDeclared
    /\ Len(remote_to_local) = 1 /\ remote_to_local[1] = "ReverseUdp"
    /\ Len(local_to_remote) = 1 /\ local_to_remote[1] = "Socks5"
    /\ SpawnCount("R", 1) = 1
    /\ SpawnCount("L", 1) = 1

\* C3: once the Stdio arm is in its select! and the bridge has closed or an
\* interrupt has arrived, the process eventually exits with status 0, the
\* one-second sleep having elapsed.
C3_StdioEventLeadsToExit ==
    (pc = "stdio_select" /\ (closed \/ interrupt))
        ~> (pc = "exited" /\ exit_status = <<0>> /\ slept = GraceSecs)

C3_Witness ==
    /\ pc = "exited"
    /\ exit_status = <<0>>
    /\ interrupt
    /\ ~closed
    /\ slept = GraceSecs

\* C4: the process exits only from the Stdio arm, only after closure or an
\* interrupt and the full sleep, and always with status 0, whatever became of
\* the stdio task.
C4_ExitOnlyAfterEventAndGrace ==
    (pc = "exited" \/ exit_status # <<>>) =>
        /\ pc = "exited"
        /\ closed \/ interrupt
        /\ slept >= GraceSecs
        /\ exit_status = <<0>>
        /\ li \in DOMAIN local_to_remote
        /\ local_to_remote[li] = "Stdio"
        /\ SpawnCount("L", li) = 1

C4_Witness ==
    /\ pc = "exited"
    /\ closed
    /\ ~interrupt
    /\ \E t \in DOMAIN tasks : tasks[t].tag = "Stdio" /\ tasks[t].status = "failed"

\* C5: the step in which a non-stdio task ends with an error changes that
\* task's status and nothing else: not connect's position or result, not the
\* process, not any other task.
C5_TaskFailureIsContained ==
    [][\A t \in DOMAIN tasks :
          (/\ tasks[t].status = "running"
           /\ tasks[t].tag # "Stdio"
           /\ Len(tasks') >= t
           /\ tasks'[t].status = "failed") =>
              /\ pc' = pc
              /\ error' = error
              /\ exit_status' = exit_status
              /\ <<ri, li, listeners, closed, interrupt, slept>>' =
                    <<ri, li, listeners, closed, interrupt, slept>>
              /\ Len(tasks') = Len(tasks)
              /\ \A u \in DOMAIN tasks \ {t} : tasks'[u] = tasks[u]]_vars

C5_Witness ==
    /\ pc = "returned_ok"
    /\ Len(tasks) = 2
    /\ tasks[1].status = "failed" /\ tasks[1].tag = "ReverseTcp"
    /\ tasks[2].status = "running" /\ tasks[2].tag = "Tcp"

\* C6: whenever connect aborts on a fatal configuration error, no task has
\* been spawned.
C6_FatalErrorBeforeAnyTask ==
    pc = "panicked" => Len(tasks) = 0

\* C7: a failed listener construction leaves its entry without a task and
\* makes connect return Err at that entry; connect returns Err only from a
\* construction step (of the transport client, with nothing spawned yet, or
\* of the listener of the entry it is at), whatever the spawned tasks did.
C7_ListenerFailureIsReported ==
    /\ \A k \in DOMAIN listeners :
          ~listeners[k].ok =>
              /\ SpawnCount("L", listeners[k].idx) = 0
              /\ pc = "returned_err"
              /\ error = "listener"
              /\ li = listeners[k].idx
    /\ pc = "returned_err" =>
          \/ error \in {"host_header", "http_proxy", "ws_client"} /\ tasks = <<>>
          \/ error = "listener" /\ LastListenerFailed /\ SpawnCount("L", li) = 0

C7_Witness ==
    /\ pc = "returned_err"
    /\ error = "listener"
    /\ li = 2
    /\ SpawnCount("L", 1) = 1
    /\ SpawnCount("L", 2) = 0
    /\ tasks[1].status = "failed"

\* C8: with no Stdio entry declared, connect reaches its Ok return unless a
\* construction step fails or a fatal error aborts it, although no spawned
\* task is ever obliged to finish.
C8_ConnectReturnsWithoutJoining ==
    NoStdioDeclared ~> (pc = "returned_ok" \/ error # "none")

C8_Witness ==
    /\ pc = "returned_ok"
    /\ NoStdioDeclared
    /\ Len(tasks) = 2
    /\ \A t \in DOMAIN tasks : tasks[t].status = "running"
    /\ \A k \in DOMAIN listeners : listeners[k].ok

C10_DispatchFollowsTable ==
    \A t \in DOMAIN tasks :
        LET k == tasks[t] IN
        \/ /\ k.list = "R"
           /\ k.idx \in DOMAIN remote_to_local
           /\ k.runner = "run_reverse_tunnel"
           /\ k.tag = remote_to_local[k.idx]
           /\ \/ k.tag \in {"ReverseTcp", "ReverseHttpProxy", "ReverseUnix"}
                    /\ k.factory = "TcpTunnelConnector"
              \/ k.tag = "ReverseUdp" /\ k.factory = "UdpTunnelConnector"
              \/ k.tag = "ReverseSocks5" /\ k.factory = "Socks5TunnelConnector"
        \/ /\ k.list = "L"
           /\ k.idx \in DOMAIN local_to_remote
           /\ k.runner = "run_tunnel"
           /\ k.tag = local_to_remote[k.idx]
           /\ \/ k.tag = "Tcp" /\ k.factory = "TcpTunnelListener"
              \/ k.tag = "Udp" /\ k.factory = "UdpTunnelListener"
              \/ k.tag = "Socks5" /\ k.factory = "Socks5TunnelListener"
              \/ k.tag = "HttpProxy" /\ k.factory = "HttpProxyTunnelListener"
              \/ k.tag = "Stdio" /\ k.factory = "new_stdio_listener"
              \/ k.tag \in {"Unix", "TProxyTcp", "TProxyUdp"}
           /\ \E n \in DOMAIN listeners :
                 listeners[n].idx = k.idx /\ listeners[n].factory = k.factory

C10_Witness ==
    /\ Len(tasks) = 2
    /\ tasks[1].list = "R" /\ tasks[1].tag = "ReverseHttpProxy"
    /\ tasks[1].factory = "TcpTunnelConnector"
    /\ tasks[2].list = "L" /\ tasks[2].tag = "Stdio"
    /\ tasks[2].factory = "new_stdio_listener"

-----------------------------------------------------------------------------
\* C11: the built configuration has no TLS part for the schemes ws and http,
\* and for wss and https it has one whose connector was asked for SNI exactly
\* when tls_sni_disable is false.
C11_TlsFollowsScheme ==
    client_config # <<>> =>
        LET c == client_config[1] IN
        /\ args.scheme \in {"ws", "http"} => c.tls = <<>>
        /\ args.scheme \in {"wss", "https"} =>
              /\ c.tls # <<>>
              /\ c.tls[1].sni_enabled = ~args.tls_sni_disable
              /\ c.tls[1].tls_sni_disabled = args.tls_sni_disable

C11_Witness ==
    /\ client_config # <<>>
    /\ args.scheme = "wss"
    /\ args.tls_sni_disable
    /\ client_config[1].tls # <<>>
    /\ ~client_config[1].tls[1].sni_enabled

\* C12: http_header_host is the value of the (first) explicit Host entry when
\* http_headers has one, and otherwise the URL's host, followed by the port
\* unless that is 80, 443 or absent; the http_headers of the configuration
\* hold no Host entry.
C12_HostHeaderOnce ==
    client_config # <<>> =>
        LET c == client_config[1]
            hosts == {i \in DOMAIN args.http_headers : args.http_headers[i][1] = "host"}
        IN
        /\ hosts # {} =>
              \E i \in hosts :
                  /\ \A j \in hosts : i <= j
                  /\ c.http_header_host = args.http_headers[i][2]
        /\ hosts = {} =>
              c.http_header_host =
                  IF args.port \in {<<>>, <<80>>, <<443>>}
                    THEN <<args.host>>
                    ELSE <<args.host, args.port[1]>>
        /\ \A k \in DOMAIN c.http_headers : c.http_headers[k][1] # "host"
        /\ Len(c.http_headers) = Len(args.http_headers) - Cardinality(hosts)

C12_Witness ==
    /\ client_config # <<>>
    /\ args.http_headers = << <<"x-id", <<"a.example">> >>, <<"host", <<"b.example", 8443>> >> >>
    /\ args.port = <<8080>>
    /\ client_config[1].http_header_host = <<"b.example", 8443>>
    /\ client_config[1].http_headers = << <<"x-id", <<"a.example">> >> >>

\* C13: when the process exits from the Stdio arm, every runnable
\* local_to_remote entry declared after the Stdio entry has had its task
\* spawned, as the ones before it have.
C13_EntriesAfterStdioStillStart ==
    pc = "exited" =>
        \A j \in DOMAIN local_to_remote :
            ValidLocal(local_to_remote[j]) => SpawnCount("L", j) >= 1

\* C14: the connector of every ReverseTcp, ReverseUdp, ReverseHttpProxy and
\* ReverseUnix task is built to the descriptor's remote target, and the
\* RemoteAddr it advertises is derived from the descriptor's local address.
C14_ConnectorToRemoteTarget ==
    \A t \in DOMAIN tasks :
        tasks[t].tag \in {"ReverseTcp", "ReverseUdp", "ReverseHttpProxy", "ReverseUnix"} =>
            /\ tasks[t].connect_to = "tunnel.remote"
            /\ tasks[t].advertised = "tunnel.local"

\* C15: a Stdio, TProxyTcp or TProxyUdp entry of remote_to_local never has a
\* task, and the step of connect that handles it only moves on to the next
\* entry: nothing is spawned, no error or panic is raised.
C15_InvalidReverseEntriesSkipped ==
    /\ [](\A i \in DOMAIN remote_to_local :
             remote_to_local[i] \in {"Stdio", "TProxyTcp", "TProxyUdp"} =>
                 /\ SpawnCount("R", i) = 0
                 /\ (ri = i /\ pc = "panicked") => error \in BuildPanics)
    /\ [][(/\ pc = "remote_loop"
           /\ remote_to_local[ri] \in {"Stdio", "TProxyTcp", "TProxyUdp"}
           /\ <<pc, ri>>' # <<pc, ri>>) =>
              /\ ri' = ri + 1
              /\ pc' = IF ri < Len(remote_to_local) THEN "remote_loop" ELSE "local_loop"
              /\ tasks' = tasks
              /\ listeners' = listeners
              /\ error' = "none"]_vars

C15_Witness ==
    /\ pc = "returned_ok"
    /\ remote_to_local = <<"TProxyUdp", "ReverseTcp">>
    /\ SpawnCount("R", 1) = 0
    /\ SpawnCount("R", 2) = 1

\* C16: the timeout in the RemoteAddr of every ReverseUdp task is the
\* descriptor's: None stays None, Some(d) stays Some(d).
C16_UdpTimeoutCarriedUnchanged ==
    \A t \in DOMAIN tasks :
        tasks[t].tag = "ReverseUdp" =>
            /\ tasks[t].timeout = remote_timeout[tasks[t].idx]
            /\ remote_timeout[tasks[t].idx] = <<>> <=> tasks[t].timeout = <<>>

C16_Witness ==
    /\ Len(tasks) = 2
    /\ tasks[1].tag = "ReverseUdp" /\ tasks[1].timeout = <<>>
    /\ tasks[2].tag = "ReverseUdp" /\ tasks[2].timeout = <<<<10, 0>>>>

\* C17: the step of connect that handles a reverse entry always spawns its
\* task and moves on, with no error and no listener constructed; and the step
\* in which a reverse task fails leaves connect where it was, with the
\* result it had.
C17_ReverseEntriesNeverFailConnect ==
    [][/\ (/\ pc = "remote_loop"
           /\ remote_to_local[ri] \in ReverseProtocols
           /\ <<pc, ri>>' # <<pc, ri>>) =>
              /\ ri' = ri + 1
              /\ pc' = IF ri < Len(remote_to_local) THEN "remote_loop" ELSE "local_loop"
              /\ error' = "none"
              /\ listeners' = listeners
              /\ Len(tasks') = Len(tasks) + 1
              /\ tasks'[Len(tasks')].list = "R"
              /\ tasks'[Len(tasks')].idx = ri
       /\ \A t \in DOMAIN tasks :
             (/\ tasks[t].list = "R"
              /\ tasks[t].status = "running"
              /\ Len(tasks') >= t
              /\ tasks'[t].status = "failed") =>
                 <<pc, ri, li, error>>' = <<pc, ri, li, error>>]_vars

C17_Witness ==
    /\ pc = "returned_ok"
    /\ Len(tasks) = 2
    /\ tasks[1].list = "R" /\ tasks[1].tag = "ReverseSocks5" /\ tasks[1].status = "failed"
    /\ tasks[2].list = "R" /\ tasks[2].status = "running"

\* C18: the ping frequency of the configuration is 30 s when none is given,
\* the given duration when that is at least one second, absent when zero is
\* given, and never a zero duration.
C18_PingFrequency ==
    client_config # <<>> =>
        LET f == client_config[1].websocket_ping_frequency
            g == args.websocket_ping_frequency_sec
        IN
        /\ g = <<>> => f = <<<<30, 0>>>>
        /\ (g # <<>> /\ g[1][1] >= 1) => f = g
        /\ g = <<<<0, 0>>>> => f = <<>>
        /\ f # <<>> => f[1] # <<0, 0>>

C18_Witness ==
    /\ client_config # <<>>
    /\ args.websocket_ping_frequency_sec = <<<<0, 0>>>>
    /\ client_config[1].websocket_ping_frequency = <<>>

\* C19: a listener is constructed only once every remote_to_local entry has
\* been dispatched; so when a listener construction has failed, or connect is
\* in the Stdio arm or the process has exited from it, every reverse entry
\* has its task.
C19_RemoteEntriesDispatchedFirst ==
    /\ listeners # <<>> => ri > Len(remote_to_local)
    /\ (\/ pc \in {"stdio_select", "stdio_sleep", "exited"}
        \/ error = "listener") =>
           \A i \in DOMAIN remote_to_local :
               ValidRemote(remote_to_local[i]) => SpawnCount("R", i) = 1

C19_Witness ==
    /\ error = "listener"
    /\ pc = "returned_err"
    /\ Len(remote_to_local) = 1
    /\ remote_to_local[1] = "ReverseUnix"
    /\ SpawnCount("R", 1) = 1
    /\ li = 1

\* C20: tasks and listeners exist only once the transport client has been
\* built; when the host header, the http proxy or WsClient::new fails,
\* connect has returned that Err with no task spawned and no listener
\* constructed.
C20_NothingBeforeClient ==
    /\ (tasks # <<>> \/ listeners # <<>>) =>
           (client_config # <<>> /\ pc # "build_client")
    /\ error \in {"host_header", "http_proxy", "ws_client"} =>
           /\ pc = "returned_err"
           /\ client_config = <<>>
           /\ tasks = <<>>
           /\ listeners = <<>>

C20_Witness ==
    /\ error = "ws_client"
    /\ pc = "returned_err"
    /\ remote_to_local = <<"ReverseTcp">>
    /\ local_to_remote = <<"Tcp">>
    /\ tasks = <<>>

-----------------------------------------------------------------------------
\* C21: the step in which connect returns the Err of a failed listener
\* construction leaves every task as it was, whether running or not; in the
\* state it returns in, every reverse entry and every earlier runnable
\* local_to_remote entry has its task, and each task still running can go on
\* to finish or fail on its own, which is all that can happen from then on.
C21_TasksOutliveListenerErr ==
    /\ []((pc = "returned_err" /\ error = "listener") =>
             /\ \A i \in DOMAIN remote_to_local :
                   ValidRemote(remote_to_local[i]) => SpawnCount("R", i) = 1
             /\ \A j \in 1..(li - 1) :
                   ValidLocal(local_to_remote[j]) => SpawnCount("L", j) = 1
             /\ \A t \in DOMAIN tasks :
                   tasks[t].status = "running" =>
                       (ENABLED TaskDone(t)) /\ (ENABLED TaskFail(t)))
    /\ [][/\ (pc # "returned_err" /\ pc' = "returned_err" /\ error' = "listener") =>
              tasks' = tasks
          /\ (pc = "returned_err" /\ error = "listener") =>
              /\ <<pc, error, ri, li, listeners, exit_status>>' =
                    <<pc, error, ri, li, listeners, exit_status>>
              /\ Len(tasks') = Len(tasks)
              /\ \A t \in DOMAIN tasks :
                    \/ tasks'[t] = tasks[t]
                    \/ /\ tasks[t].status = "running"
                       /\ tasks'[t] = [tasks[t] EXCEPT !.status = tasks'[t].status]
                       /\ tasks'[t].status \in {"done", "failed"}]_vars

C21_Witness ==
    /\ pc = "returned_err"
    /\ error = "listener"
    /\ li = 2
    /\ Len(tasks) = 1
    /\ tasks[1].list = "L" /\ tasks[1].idx = 1
    /\ tasks[1].status = "running"

\* the part of the Stdio arm that follows its spawn: the select!, the sleep,
\* and the state after std::process::exit
InStdioArm == pc \in {"stdio_select", "stdio_sleep", "exited"}

\* C22: the step that builds the listener of a local_to_remote Stdio entry
\* successfully takes connect into the Stdio arm, and from there connect is
\* only ever waiting in the select!, sleeping, or gone with the process at
\* exit status 0: it never returns Ok or Err and never panics, whatever the
\* other tasks are doing.
C22_StdioArmNeverReturns ==
    /\ [](InStdioArm =>
             /\ li \in DOMAIN local_to_remote
             /\ local_to_remote[li] = "Stdio"
             /\ \E k \in DOMAIN listeners : listeners[k].idx = li /\ listeners[k].ok
             /\ error = "none"
             /\ pc = "exited" => exit_status = <<0>>
             /\ pc # "exited" => exit_status = <<>>)
    /\ [][/\ (/\ pc = "local_loop"
               /\ li <= Len(local_to_remote)
               /\ local_to_remote[li] = "Stdio"
               /\ Len(listeners') > Len(listeners)
               /\ listeners'[Len(listeners')].ok) => pc' = "stdio_select"
          /\ InStdioArm =>
               /\ pc' \in {"stdio_select", "stdio_sleep", "exited"}
               /\ pc' \notin {"returned_ok", "returned_err", "panicked"}
               /\ pc = "stdio_sleep" => pc' # "stdio_select"
               /\ pc = "exited" => pc' = "exited"
               /\ <<li, error>>' = <<li, error>>]_vars

C22_Witness ==
    /\ pc = "exited"
    /\ exit_status = <<0>>
    /\ Len(tasks) = 2
    /\ tasks[1].tag = "ReverseTcp" /\ tasks[1].status = "running"
    /\ tasks[2].tag = "Stdio"

\* C23: a reverse variant in local_to_remote, and a Tcp, Udp, Socks5 or
\* HttpProxy variant in remote_to_local, never has a task or a listener, and
\* the step of connect that handles it only moves on to the next entry (or
\* to the next loop): nothing is spawned or constructed, no error is raised.
C23_MisplacedEntriesSkipped ==
    /\ [](/\ \A j \in DOMAIN local_to_remote :
                local_to_remote[j] \in ReverseProtocols =>
                    /\ SpawnCount("L", j) = 0
                    /\ \A k \in DOMAIN listeners : listeners[k].idx # j
                    /\ li = j => pc \notin {"stdio_select", "stdio_sleep", "exited"}
                    /\ (li = j /\ pc = "returned_err") => error \in BuildErrs
                    /\ (li = j /\ pc = "panicked") =>
                          error \in BuildPanics \cup {"invalid_reverse_protocol"}
           /\ \A i \in DOMAIN remote_to_local :
                remote_to_local[i] \in {"Tcp", "Udp", "Socks5", "HttpProxy"} =>
                    /\ SpawnCount("R", i) = 0
                    /\ (ri = i /\ pc = "panicked") => error \in BuildPanics)
    /\ [][/\ (/\ pc = "local_loop"
               /\ li <= Len(local_to_remote)
               /\ local_to_remote[li] \in ReverseProtocols
               /\ <<pc, li>>' # <<pc, li>>) =>
                  /\ li' = li + 1
                  /\ pc' = "local_loop"
                  /\ tasks' = tasks
                  /\ listeners' = listeners
                  /\ error' = "none"
          /\ (/\ pc = "remote_loop"
               /\ remote_to_local[ri] \in {"Tcp", "Udp", "Socks5", "HttpProxy"}
               /\ <<pc, ri>>' # <<pc, ri>>) =>
                  /\ ri' = ri + 1
                  /\ pc' = IF ri < Len(remote_to_local) THEN "remote_loop" ELSE "local_loop"
                  /\ tasks' = tasks
                  /\ listeners' = listeners
                  /\ error' = "none"]_vars

C23_Witness ==
    /\ pc = "returned_ok"
    /\ remote_to_local = <<"Udp">>
    /\ local_to_remote = <<"ReverseUdp">>
    /\ ri = 2
    /\ li = 2
    /\ tasks = <<>>
    /\ listeners = <<>>
    /\ error = "none"

====
